---- MODULE Spec2Model ----
(***************************************************************************)
(* Event scheduler (src/main.py): the in-memory store `events`, the        *)
(* persisted events.json, and the operations add_event, update_event,      *)
(* delete_event, load_events and find_free_times.                          *)
(*                                                                         *)
(* An instant is a number of minutes since 00:00 of day 0 (datetime at     *)
(* minute resolution).  A date string given to the program is modelled by  *)
(* what strptime reads from it: a day and a minute of the day              *)
(* ("YYYY-MM-DD HH:MM"), a day alone ("YYYY-MM-DD"), or neither.           *)
(***************************************************************************)
EXTENDS Integers, Sequences, FiniteSets, TLC

\* ------------------------------------------------------------- bounds
\* Days 0..MaxDay are the calendar days the inputs name.
MaxDay == 1
\* The store holds at most MaxEvents events (add_event is not called on a
\* fuller store).
MaxEvents == 2

\* ------------------------------------------------------------- inputs
MinutesPerDay == 24 * 60

Days == 0 .. MaxDay

\* Minutes of the day the "HH:MM" part of an input names: 23:00, 23:30.
TimesOfDay == {1380, 1410}

\* Durations given to add_event / update_event (argparse type=int: any int).
\* 23:00 + 60 ends at midnight exactly, 23:30 + 60 runs into the next day.
Durations == {-60, 0, 60}

Names == {"a", "b"}

CategoryInputs == {"Work", "Leisure"}

\* The values `now` takes: 09:00 of day 0, then 23:00 of each later day (the
\* very minute an input can name).
ClockTimes == {IF d = 0 THEN 540 ELSE d * MinutesPerDay + 1380 : d \in Days}

\* Python's None and an optional argument's value.
None == <<>>

Some(v) == <<v>>

\* A date string, by what strptime can read from it.
DateTimeStr(d, m) == [kind |-> "datetime", day |-> d, minute |-> m]

DateStr(d) == [kind |-> "date", day |-> d, minute |-> 0]

InvalidStr == [kind |-> "invalid", day |-> 0, minute |-> 0]

DateStrings ==
    {DateTimeStr(d, m) : d \in Days, m \in TimesOfDay}
        \cup {DateStr(d) : d \in Days} \cup {InvalidStr}

\* ------------------------------------------------------------- state
VARIABLES
    events,      \* main.events: start instant -> (name, category, duration)
    file,        \* events.json: its status and formatted key -> {name, category, duration}
    now,         \* datetime.now(), in minutes
    lastOp,      \* the operation that ran last
    args,        \* its arguments
    ret,         \* what it returned: "True", "False" or "None"
    msg,         \* which message it printed
    free,        \* the free-time windows it computed (returned or printed)
    report,      \* what generate_report computed: category totals, busiest days, trends
    exitStatus,  \* the status main() exits with after the operation, once it ran
    prevEvents,  \* events when it was called
    prevFile,    \* events.json when it was called
    proc,        \* the invocations of the program that run side by side on events.json
    interleaved  \* an invocation loaded events.json while another was between load and save

\* The state of the invocations that run side by side.
raceVars == <<proc, interleaved>>

vars == <<events, file, now, lastOp, args, ret, msg, free, report, exitStatus,
          prevEvents, prevFile, proc, interleaved>>

\* ------------------------------------------------------------- time utilities
\* datetime.strptime(s, "%Y-%m-%d %H:%M"): a value only for a full date-time.
Strptime(s) ==
    IF s.kind = "datetime" THEN Some(s.day * MinutesPerDay + s.minute) ELSE None

\* datetime.strptime(s + " 00:00", "%Y-%m-%d %H:%M"): a value only for a bare date.
StrptimeMidnight(s) ==
    IF s.kind = "date" THEN Some(s.day * MinutesPerDay) ELSE None

\* dt.strftime('%Y-%m-%d %H:%M'): the key of events.json.
Strftime(t) ==
    [day |-> t \div MinutesPerDay,
     hh |-> (t % MinutesPerDay) \div 60,
     mm |-> (t % MinutesPerDay) % 60]

\* A key of events.json parsed for its date only ('%Y-%m-%d').
StrptimeKey_DateOnly(k) == k.day * MinutesPerDay

\* datetime.strptime(k, '%Y-%m-%d %H:%M') of a key of events.json.
StrptimeKey(k) == k.day * MinutesPerDay + k.hh * 60 + k.mm

\* dt.date()
DateOf(t) == t \div MinutesPerDay

\* validate_date accepting the current minute (< for <=).
validate_date_AcceptsNow(date_str, test_time, clock) ==
    LET first == Strptime(date_str)
        second == StrptimeMidnight(date_str)
        parsed == IF first # None THEN first ELSE second
    IN  IF parsed = None
        THEN [ok |-> FALSE, err |-> "invalid_format", value |-> 0]
        ELSE IF test_time = 1 /\ parsed[1] < clock
             THEN [ok |-> FALSE, err |-> "must_be_future", value |-> parsed[1]]
             ELSE [ok |-> TRUE, err |-> "", value |-> parsed[1]]

\* validate_date(date_str, test_time): the datetime, or the ValueError raised.
validate_date(date_str, test_time, clock) ==
    LET first == Strptime(date_str)
        second == StrptimeMidnight(date_str)
        parsed == IF first # None THEN first ELSE second
    IN  IF parsed = None
        THEN [ok |-> FALSE, err |-> "invalid_format", value |-> 0]
        ELSE IF test_time = 1 /\ parsed[1] <= clock
             THEN [ok |-> FALSE, err |-> "must_be_future", value |-> parsed[1]]
             ELSE [ok |-> TRUE, err |-> "", value |-> parsed[1]]

\* str.lower() on the category strings in use.
Lower(c) ==
    CASE c = "Work" -> "work"
      [] c = "Leisure" -> "leisure"
      [] c = "Exercise" -> "exercise"
      [] OTHER -> c

\* ------------------------------------------------------------- persistence
\* events.json before anything was saved: open() raises FileNotFoundError.
Missing == [status |-> "missing", data |-> <<>>]

\* save_events writing its keys with strftime('%Y-%m-%d').
save_events_DateOnlyKeys(evs) ==
    LET keys == {[day |-> DateOf(t), hh |-> 0, mm |-> 0] : t \in DOMAIN evs}
    IN  [status |-> "ok",
         data |-> [k \in keys |->
                    LET t == CHOOSE t \in DOMAIN evs : DateOf(t) = k.day
                    IN  [name |-> evs[t].name, category |-> evs[t].category,
                         duration |-> evs[t].duration]]]

\* save_events(): json.dump of {strftime(k): {...}} to events.json.
save_events(evs) ==
    LET keys == {Strftime(t) : t \in DOMAIN evs}
    IN  [status |-> "ok",
         data |-> [k \in keys |->
                    LET t == CHOOSE t \in DOMAIN evs : Strftime(t) = k
                    IN  [name |-> evs[t].name, category |-> evs[t].category,
                         duration |-> evs[t].duration]]]

\* load_events that never reads events.json.
load_events_NeverReads(f, evs) == evs

\* load_events(): the store read back; when open() or json.load raises, the
\* except clause passes and events is left as it was.
load_events(f, evs) ==
    IF f.status # "ok"
    THEN evs
    ELSE LET starts == {StrptimeKey(k) : k \in DOMAIN f.data}
         IN  [t \in starts |->
                LET k == CHOOSE k \in DOMAIN f.data : StrptimeKey(k) = t
                IN  [name |-> f.data[k].name, category |-> f.data[k].category,
                     duration |-> f.data[k].duration]]

\* ------------------------------------------------------------- conflict detector
\* is_time_conflict testing only whether new_start falls inside a stored event.
is_time_conflict_StartInside(evs, new_start, new_duration) ==
    \E start_time \in DOMAIN evs :
        LET end_time == start_time + evs[start_time].duration
        IN  start_time <= new_start /\ new_start < end_time

\* is_time_conflict with closed intervals (<= and >= for < and >).
is_time_conflict_Closed(evs, new_start, new_duration) ==
    LET new_end == new_start + new_duration
    IN  \E start_time \in DOMAIN evs :
            LET end_time == start_time + evs[start_time].duration
            IN  new_start <= end_time /\ new_end >= start_time

\* is_time_conflict(new_start, new_duration) over the store evs.
is_time_conflict(evs, new_start, new_duration) ==
    LET new_end == new_start + new_duration
    IN  \E start_time \in DOMAIN evs :
            LET end_time == start_time + evs[start_time].duration
            IN  new_start < end_time /\ new_end > start_time

\* ------------------------------------------------------------- free-time calculator
RECURSIVE SortedSeq(_)
\* sorted(...): the instants of S in ascending order.
SortedSeq(S) ==
    IF S = {} THEN <<>>
    ELSE LET m == CHOOSE x \in S : \A y \in S : x <= y
         IN  <<m>> \o SortedSeq(S \ {m})

Max(a, b) == IF a >= b THEN a ELSE b

RECURSIVE FreeLoop(_, _, _, _, _)
\* The for loop of find_free_times over day_events[i..], from last_end_time.
FreeLoop(evs, day_events, i, last_end_time, free_times) ==
    IF i > Len(day_events)
    THEN [last_end_time |-> last_end_time, free_times |-> free_times]
    ELSE LET start_time == day_events[i]
             appended == IF start_time > last_end_time
                         THEN Append(free_times, <<last_end_time, start_time>>)
                         ELSE free_times
             current_end_time == start_time + evs[start_time].duration
         IN  FreeLoop(evs, day_events, i + 1,
                      Max(last_end_time, current_end_time), appended)

\* find_free_times walking the events of every day, not only those of date.
find_free_times_EveryDay(evs, date) ==
    LET day_events == SortedSeq(DOMAIN evs)
        start_of_day == DateOf(date) * MinutesPerDay
        loop == FreeLoop(evs, day_events, 1, start_of_day, <<>>)
        end_of_day == DateOf(date) * MinutesPerDay + (MinutesPerDay - 1)
    IN  IF loop.last_end_time < end_of_day
        THEN Append(loop.free_times, <<loop.last_end_time, end_of_day>>)
        ELSE loop.free_times

\* find_free_times(date) over the store evs.
find_free_times(evs, date) ==
    LET day_events == SortedSeq({t \in DOMAIN evs : DateOf(t) = DateOf(date)})
        start_of_day == DateOf(date) * MinutesPerDay
        loop == FreeLoop(evs, day_events, 1, start_of_day, <<>>)
        end_of_day == DateOf(date) * MinutesPerDay + (MinutesPerDay - 1)
    IN  IF loop.last_end_time < end_of_day
        THEN Append(loop.free_times, <<loop.last_end_time, end_of_day>>)
        ELSE loop.free_times

\* ------------------------------------------------------------- listing
RECURSIVE Rows(_, _, _)
\* The rows view_events prints for the starts order[i..].
Rows(evs, order, i) ==
    IF i > Len(order) THEN <<>>
    ELSE <<[start |-> Strftime(order[i]), name |-> evs[order[i]].name,
            category |-> evs[order[i]].category,
            duration |-> evs[order[i]].duration]>> \o Rows(evs, order, i + 1)

\* view_events(): the rows of sorted(events.items()).
view_events(evs) == Rows(evs, SortedSeq(DOMAIN evs), 1)

\* ------------------------------------------------------------- analytics
\* A dict as the sequence of its <<key, value>> items in insertion order.
RECURSIVE DictGet(_, _, _)
\* d.get(k, default)
DictGet(d, k, default) ==
    IF d = <<>> THEN default
    ELSE IF Head(d)[1] = k THEN Head(d)[2] ELSE DictGet(Tail(d), k, default)

RECURSIVE DictSet(_, _, _)
\* d[k] = v: the value replaced in place, or the item appended.
DictSet(d, k, v) ==
    IF d = <<>> THEN <<<<k, v>>>>
    ELSE IF Head(d)[1] = k THEN <<<<k, v>>>> \o Tail(d)
         ELSE <<Head(d)>> \o DictSet(Tail(d), k, v)

\* The orders events.items() can iterate in: a dict keeps insertion order.
ItemOrders(evs) ==
    {o \in [1 .. Cardinality(DOMAIN evs) -> DOMAIN evs] :
        \A i, j \in 1 .. Cardinality(DOMAIN evs) : i # j => o[i] # o[j]}

RECURSIVE DayDurationYields(_, _, _, _)
\* What generate_day_durations() yields over order[i..], day_durations so far.
DayDurationYields(evs, order, i, day_durations) ==
    IF i > Len(order) THEN <<>>
    ELSE LET day == DateOf(order[i])
             total == DictGet(day_durations, day, 0) + evs[order[i]].duration
         IN  <<<<day, total>>>>
                \o DayDurationYields(evs, order, i + 1, DictSet(day_durations, day, total))

\* generate_day_durations()
generate_day_durations(evs, order) == DayDurationYields(evs, order, 1, <<>>)

RECURSIVE CollectYields(_, _, _)
\* The loop of busiest_days: day_durations[day] = duration for each yield.
CollectYields(yields, i, day_durations) ==
    IF i > Len(yields) THEN day_durations
    ELSE CollectYields(yields, i + 1, DictSet(day_durations, yields[i][1], yields[i][2]))

RECURSIVE InsertByValue(_, _, _)
\* item put into the sorted sequence behind every item that does not come
\* after it (first(a, b): a comes strictly before b), so the sort is stable.
InsertByValue(sorted, item, descending) ==
    IF sorted = <<>> THEN <<item>>
    ELSE IF (IF descending THEN item[2] > Head(sorted)[2] ELSE item[2] < Head(sorted)[2])
         THEN <<item>> \o sorted
         ELSE <<Head(sorted)>> \o InsertByValue(Tail(sorted), item, descending)

RECURSIVE SortedByValue(_, _, _, _)
\* sorted(items, key=lambda x: x[1], reverse=descending), a stable sort.
SortedByValue(items, i, sorted, descending) ==
    IF i > Len(items) THEN sorted
    ELSE SortedByValue(items, i + 1, InsertByValue(sorted, items[i], descending), descending)

\* busiest_days sorting without reverse=True.
busiest_days_Ascending(evs, order) ==
    SortedByValue(CollectYields(generate_day_durations(evs, order), 1, <<>>), 1, <<>>, FALSE)

\* busiest_days()
busiest_days(evs, order) ==
    SortedByValue(CollectYields(generate_day_durations(evs, order), 1, <<>>), 1, <<>>, TRUE)

\* start.strftime('%Y-%U'): the week of the year, weeks beginning on Sunday.
\* Day 0 is a Saturday, the seventh day of a year that begins on a Sunday, so
\* the instants of the model lie in one year and the week number stands for
\* the string.
WeekOf(t) ==
    LET yday == DateOf(t) + 6
        wday == yday % 7
    IN  (yday + 7 - wday) \div 7

Capitalize(c) ==
    CASE c = "work" -> "Work"
      [] c = "exercise" -> "Exercise"
      [] c = "leisure" -> "Leisure"
      [] OTHER -> c

RECURSIVE SumDurations(_, _)
\* sum(details[2] for ... in events.items() if start in S)
SumDurations(evs, S) ==
    IF S = {} THEN 0
    ELSE LET k == CHOOSE k \in S : TRUE
         IN  evs[k].duration + SumDurations(evs, S \ {k})

\* The categories total_time_per_category loops over.
KnownCategories == {"work", "exercise", "leisure"}

\* total_time_per_category comparing the stored category with the capitalized
\* key instead of lower-casing it.
total_time_per_category_NoLower(evs) ==
    [key \in {Capitalize(c) : c \in KnownCategories} |->
        SumDurations(evs, {k \in DOMAIN evs : evs[k].category = key})]

\* total_time_per_category()
total_time_per_category(evs) ==
    [key \in {Capitalize(c) : c \in KnownCategories} |->
        LET category == CHOOSE c \in KnownCategories : Capitalize(c) = key
        IN  SumDurations(evs, {k \in DOMAIN evs : Lower(evs[k].category) = category})]

RECURSIVE TrendYields(_, _, _, _)
\* What trend_generator() yields over order[i..], weekly_durations so far: the
\* week and its category -> minutes dict after each event.
TrendYields(evs, order, i, weekly_durations) ==
    IF i > Len(order) THEN <<>>
    ELSE LET week == WeekOf(order[i])
             category == Lower(evs[order[i]].category)
             durations == DictGet(weekly_durations, week, <<>>)
             added == DictSet(durations, category,
                              DictGet(durations, category, 0) + evs[order[i]].duration)
         IN  <<<<week, added>>>>
                \o TrendYields(evs, order, i + 1, DictSet(weekly_durations, week, added))

\* trend_generator()
trend_generator(evs, order) == TrendYields(evs, order, 1, <<>>)

RECURSIVE SumValues(_)
\* sum(durations.values())
SumValues(durations) ==
    IF durations = <<>> THEN 0 ELSE Head(durations)[2] + SumValues(Tail(durations))

RECURSIVE MaxKey(_, _, _)
\* max(durations, key=durations.get) from item i on: the first key, in the
\* order of the dict, whose value no other key exceeds.
MaxKey(durations, i, best) ==
    IF i > Len(durations) THEN best
    ELSE MaxKey(durations, i + 1,
                IF durations[i][2] > DictGet(durations, best, 0) THEN durations[i][1]
                ELSE best)

\* The entry trends_over_time stores for a week, taking the first category
\* the week met as its dominant one.
TrendEntry_FirstCategory(durations) ==
    [total_duration |-> SumValues(durations),
     max_category |-> Capitalize(durations[1][1]),
     max_category_duration |-> durations[1][2]]

\* The entry trends_over_time stores for a week whose durations dict is given.
TrendEntry(durations) ==
    LET max_category == MaxKey(durations, 2, durations[1][1])
    IN  [total_duration |-> SumValues(durations),
         max_category |-> Capitalize(max_category),
         max_category_duration |-> DictGet(durations, max_category, 0)]

RECURSIVE CollectTrends(_, _, _)
\* The loop of trends_over_time: trends[week] = {...} for each yield.
CollectTrends(yields, i, trends) ==
    IF i > Len(yields) THEN trends
    ELSE CollectTrends(yields, i + 1,
                       DictSet(trends, yields[i][1], TrendEntry(yields[i][2])))

RECURSIVE InsertByKey(_, _)
\* item put into the sequence sorted by key (the keys are distinct).
InsertByKey(sorted, item) ==
    IF sorted = <<>> THEN <<item>>
    ELSE IF item[1] < Head(sorted)[1] THEN <<item>> \o sorted
         ELSE <<Head(sorted)>> \o InsertByKey(Tail(sorted), item)

RECURSIVE SortedByKey(_, _, _)
\* sorted(trends.items())
SortedByKey(items, i, sorted) ==
    IF i > Len(items) THEN sorted
    ELSE SortedByKey(items, i + 1, InsertByKey(sorted, items[i]))

\* trends_over_time()
trends_over_time(evs, order) ==
    SortedByKey(CollectTrends(trend_generator(evs, order), 1, <<>>), 1, <<>>)

\* The status main() exits with after the one operation op, which returned r:
\* sys.exit(1) after a failed add or update, sys.exit(0) at the end otherwise.
main_exit_status(op, r) ==
    IF op \in {"add", "update"} /\ r # "True" THEN 1 ELSE 0

\* No report was generated.
NoReport == [category_times |-> <<>>, busiest_days |-> <<>>, trends |-> <<>>]

\* ------------------------------------------------------------- operations
\* The invocations of the program that may run at the same time.
Invocations == {"A", "B"}

\* An invocation before load_events: a fresh process with events = {}.
NotStarted == [pc |-> "start", events |-> <<>>, ret |-> "None", added |-> None]

NoArgs == [name |-> None, category |-> None, start |-> InvalidStr, duration |-> None]

Init ==
    /\ events = <<>>
    /\ file = Missing
    /\ now = 540
    /\ lastOp = "idle"
    /\ args = NoArgs
    /\ ret = "None"
    /\ msg = ""
    /\ free = <<>>
    /\ report = NoReport
    /\ exitStatus = None
    /\ prevEvents = <<>>
    /\ prevFile = Missing
    /\ proc = [p \in Invocations |-> NotStarted]
    /\ interleaved = FALSE

\* Python truthiness of an optional string argument (None and "" are falsy).
TruthyStr(opt) == opt # None /\ opt[1] # ""

\* Python truthiness of an optional int argument (None and 0 are falsy).
TruthyInt(opt) == opt # None /\ opt[1] # 0

\* The store with evs[t] set to rec (events[t] = rec).
StoreAt(evs, t, rec) ==
    [k \in DOMAIN evs \cup {t} |-> IF k = t THEN rec ELSE evs[k]]

\* The store without key t (del events[t]).
StoreWithout(evs, t) == [k \in DOMAIN evs \ {t} |-> evs[k]]

\* add_event storing the category as given, without .lower().
add_event_outcome_NoLower(evs, f, clock, name, category, start_time, duration) ==
    LET v == validate_date(start_time, 1, clock)
    IN  IF ~v.ok
        THEN [events |-> evs, file |-> f, ret |-> "False", msg |-> v.err, free |-> <<>>]
        ELSE IF is_time_conflict(evs, v.value, duration)
             THEN [events |-> evs, file |-> f, ret |-> "False", msg |-> "conflict",
                   free |-> find_free_times(evs, v.value)]
             ELSE LET stored == StoreAt(evs, v.value,
                                    [name |-> name, category |-> category,
                                     duration |-> duration])
                  IN  [events |-> stored, file |-> save_events(stored),
                       ret |-> "True", msg |-> "added", free |-> <<>>]

\* add_event putting the event into the store before the conflict check.
add_event_outcome_StoresFirst(evs, f, clock, name, category, start_time, duration) ==
    LET v == validate_date(start_time, 1, clock)
    IN  IF ~v.ok
        THEN [events |-> evs, file |-> f, ret |-> "False", msg |-> v.err, free |-> <<>>]
        ELSE LET stored == StoreAt(evs, v.value,
                               [name |-> name, category |-> Lower(category),
                                duration |-> duration])
             IN  IF is_time_conflict(evs, v.value, duration)
                 THEN [events |-> stored, file |-> f, ret |-> "False", msg |-> "conflict",
                       free |-> find_free_times(stored, v.value)]
                 ELSE [events |-> stored, file |-> save_events(stored),
                       ret |-> "True", msg |-> "added", free |-> <<>>]

\* The outcome of add_event(name, category, start_time, duration).
add_event_outcome(evs, f, clock, name, category, start_time, duration) ==
    LET v == validate_date(start_time, 1, clock)
    IN  IF ~v.ok
        THEN [events |-> evs, file |-> f, ret |-> "False", msg |-> v.err, free |-> <<>>]
        ELSE IF is_time_conflict(evs, v.value, duration)
             THEN [events |-> evs, file |-> f, ret |-> "False", msg |-> "conflict",
                   free |-> find_free_times(evs, v.value)]
             ELSE LET stored == StoreAt(evs, v.value,
                                    [name |-> name, category |-> Lower(category),
                                     duration |-> duration])
                  IN  [events |-> stored, file |-> save_events(stored),
                       ret |-> "True", msg |-> "added", free |-> <<>>]

\* update_event writing the new name and category into the store before the
\* conflict check of the duration.
update_event_outcome_CommitFirst(evs, f, clock, original_start_time, new_name, new_category, new_duration) ==
    LET v == validate_date(original_start_time, 1, clock)
    IN  IF ~v.ok
        THEN [events |-> evs, file |-> f, ret |-> "False", msg |-> v.err]
        ELSE IF v.value \notin DOMAIN evs
             THEN [events |-> evs, file |-> f, ret |-> "False", msg |-> "not_found"]
             ELSE LET current_event == evs[v.value]
                      updated_name ==
                          IF TruthyStr(new_name) THEN new_name[1] ELSE current_event.name
                      updated_category ==
                          IF TruthyStr(new_category) THEN Lower(new_category[1])
                          ELSE current_event.category
                      updated_duration ==
                          IF TruthyInt(new_duration) THEN new_duration[1]
                          ELSE current_event.duration
                      renamed == StoreAt(evs, v.value,
                                     [name |-> updated_name,
                                      category |-> updated_category,
                                      duration |-> current_event.duration])
                  IN  IF TruthyInt(new_duration)
                         /\ is_time_conflict(evs, v.value, new_duration[1])
                      THEN [events |-> renamed, file |-> f, ret |-> "False",
                            msg |-> "conflict"]
                      ELSE LET stored == StoreAt(evs, v.value,
                                             [name |-> updated_name,
                                              category |-> updated_category,
                                              duration |-> updated_duration])
                           IN  [events |-> stored, file |-> save_events(stored),
                                ret |-> "True", msg |-> "updated"]

\* update_event storing an empty category when the patch carries none.
update_event_outcome_ClearsOmitted(evs, f, clock, original_start_time, new_name, new_category, new_duration) ==
    LET v == validate_date(original_start_time, 1, clock)
    IN  IF ~v.ok
        THEN [events |-> evs, file |-> f, ret |-> "False", msg |-> v.err]
        ELSE IF v.value \notin DOMAIN evs
             THEN [events |-> evs, file |-> f, ret |-> "False", msg |-> "not_found"]
             ELSE LET current_event == evs[v.value]
                      updated_name ==
                          IF TruthyStr(new_name) THEN new_name[1] ELSE current_event.name
                      updated_category ==
                          IF TruthyStr(new_category) THEN Lower(new_category[1])
                          ELSE ""
                      updated_duration ==
                          IF TruthyInt(new_duration) THEN new_duration[1]
                          ELSE current_event.duration
                  IN  IF TruthyInt(new_duration)
                         /\ is_time_conflict(evs, v.value, new_duration[1])
                      THEN [events |-> evs, file |-> f, ret |-> "False",
                            msg |-> "conflict"]
                      ELSE LET stored == StoreAt(evs, v.value,
                                             [name |-> updated_name,
                                              category |-> updated_category,
                                              duration |-> updated_duration])
                           IN  [events |-> stored, file |-> save_events(stored),
                                ret |-> "True", msg |-> "updated"]

\* The outcome of update_event(original_start_time, new_name, new_category, new_duration).
update_event_outcome(evs, f, clock, original_start_time, new_name, new_category, new_duration) ==
    LET v == validate_date(original_start_time, 1, clock)
    IN  IF ~v.ok
        THEN [events |-> evs, file |-> f, ret |-> "False", msg |-> v.err]
        ELSE IF v.value \notin DOMAIN evs
             THEN [events |-> evs, file |-> f, ret |-> "False", msg |-> "not_found"]
             ELSE LET current_event == evs[v.value]
                      updated_name ==
                          IF TruthyStr(new_name) THEN new_name[1] ELSE current_event.name
                      updated_category ==
                          IF TruthyStr(new_category) THEN Lower(new_category[1])
                          ELSE current_event.category
                      updated_duration ==
                          IF TruthyInt(new_duration) THEN new_duration[1]
                          ELSE current_event.duration
                  IN  IF TruthyInt(new_duration)
                         /\ is_time_conflict(evs, v.value, new_duration[1])
                      THEN [events |-> evs, file |-> f, ret |-> "False",
                            msg |-> "conflict"]
                      ELSE LET stored == StoreAt(evs, v.value,
                                             [name |-> updated_name,
                                              category |-> updated_category,
                                              duration |-> updated_duration])
                           IN  [events |-> stored, file |-> save_events(stored),
                                ret |-> "True", msg |-> "updated"]

\* delete_event removing every event that starts on the date of start_time.
delete_event_outcome_WholeDay(evs, f, clock, start_time) ==
    LET v == validate_date(start_time, 0, clock)
    IN  IF ~v.ok
        THEN [events |-> evs, file |-> f, msg |-> v.err]
        ELSE IF v.value \in DOMAIN evs
             THEN LET stored == [k \in {t \in DOMAIN evs : DateOf(t) # DateOf(v.value)}
                                    |-> evs[k]]
                  IN  [events |-> stored, file |-> save_events(stored), msg |-> "deleted"]
             ELSE [events |-> evs, file |-> f, msg |-> "not_found"]

\* delete_event also removing the events whose interval contains start_time.
delete_event_outcome_Covering(evs, f, clock, start_time) ==
    LET v == validate_date(start_time, 0, clock)
        hit == {k \in DOMAIN evs : k <= v.value /\ v.value < k + evs[k].duration}
    IN  IF ~v.ok
        THEN [events |-> evs, file |-> f, msg |-> v.err]
        ELSE IF v.value \in DOMAIN evs \/ hit # {}
             THEN LET stored == [k \in (DOMAIN evs \ hit) \ {v.value} |-> evs[k]]
                  IN  [events |-> stored, file |-> save_events(stored), msg |-> "deleted"]
             ELSE [events |-> evs, file |-> f, msg |-> "not_found"]

\* The outcome of delete_event(start_time).
delete_event_outcome(evs, f, clock, start_time) ==
    LET v == validate_date(start_time, 0, clock)
    IN  IF ~v.ok
        THEN [events |-> evs, file |-> f, msg |-> v.err]
        ELSE IF v.value \in DOMAIN evs
             THEN LET stored == StoreWithout(evs, v.value)
                  IN  [events |-> stored, file |-> save_events(stored), msg |-> "deleted"]
             ELSE [events |-> evs, file |-> f, msg |-> "not_found"]

\* The caller is between two calls.
Idle == lastOp = "idle"

add_event(name, category, start_time, duration) ==
    /\ Idle
    /\ Cardinality(DOMAIN events) < MaxEvents
    /\ LET o == add_event_outcome(events, file, now, name, category, start_time, duration)
       IN  /\ events' = o.events
           /\ file' = o.file
           /\ ret' = o.ret
           /\ msg' = o.msg
           /\ free' = o.free
    /\ report' = NoReport
    /\ exitStatus' = Some(main_exit_status("add", ret'))
    /\ lastOp' = "add"
    /\ args' = [name |-> Some(name), category |-> Some(category),
                start |-> start_time, duration |-> Some(duration)]
    /\ prevEvents' = events
    /\ prevFile' = file
    /\ UNCHANGED now
    /\ UNCHANGED raceVars

update_event(original_start_time, new_name, new_category, new_duration) ==
    /\ Idle
    /\ LET o == update_event_outcome(events, file, now, original_start_time,
                                     new_name, new_category, new_duration)
       IN  /\ events' = o.events
           /\ file' = o.file
           /\ ret' = o.ret
           /\ msg' = o.msg
    /\ free' = <<>>
    /\ report' = NoReport
    /\ exitStatus' = Some(main_exit_status("update", ret'))
    /\ lastOp' = "update"
    /\ args' = [name |-> new_name, category |-> new_category,
                start |-> original_start_time, duration |-> new_duration]
    /\ prevEvents' = events
    /\ prevFile' = file
    /\ UNCHANGED now
    /\ UNCHANGED raceVars

delete_event(start_time) ==
    /\ Idle
    /\ LET o == delete_event_outcome(events, file, now, start_time)
       IN  /\ events' = o.events
           /\ file' = o.file
           /\ msg' = o.msg
    /\ ret' = "None"
    /\ free' = <<>>
    /\ report' = NoReport
    /\ exitStatus' = Some(main_exit_status("delete", ret'))
    /\ lastOp' = "delete"
    /\ args' = [NoArgs EXCEPT !.start = start_time]
    /\ prevEvents' = events
    /\ prevFile' = file
    /\ UNCHANGED now
    /\ UNCHANGED raceVars

\* A direct call find_free_times(date), date a datetime (its time of day is ignored).
FindFreeTimes(date_str) ==
    /\ Idle
    /\ date_str.kind # "invalid"
    /\ free' = find_free_times(events, validate_date(date_str, 0, now).value)
    /\ ret' = "None"
    /\ msg' = ""
    /\ report' = NoReport
    /\ exitStatus' = Some(main_exit_status("free_times", ret'))
    /\ lastOp' = "free_times"
    /\ args' = [NoArgs EXCEPT !.start = date_str]
    /\ prevEvents' = events
    /\ prevFile' = file
    /\ UNCHANGED <<events, file, now>>
    /\ UNCHANGED raceVars

\* load_events() as main() calls it before the operations.
LoadEvents ==
    /\ Idle
    /\ events' = load_events(file, events)
    /\ ret' = "None"
    /\ msg' = ""
    /\ free' = <<>>
    /\ report' = NoReport
    /\ exitStatus' = None
    /\ lastOp' = "load"
    /\ args' = NoArgs
    /\ prevEvents' = events
    /\ prevFile' = file
    /\ UNCHANGED <<file, now>>
    /\ UNCHANGED raceVars

\* generate_report(): the category totals, the busiest days and the weekly
\* trends, over the order
\* events.items() iterates in.
generate_report ==
    /\ Idle
    /\ \E order \in ItemOrders(events) :
          report' = [category_times |-> total_time_per_category(events),
                     busiest_days |-> busiest_days(events, order),
                     trends |-> trends_over_time(events, order)]
    /\ ret' = "None"
    /\ msg' = ""
    /\ free' = <<>>
    /\ exitStatus' = Some(main_exit_status("report", ret'))
    /\ lastOp' = "report"
    /\ args' = NoArgs
    /\ prevEvents' = events
    /\ prevFile' = file
    /\ UNCHANGED <<events, file, now>>
    /\ UNCHANGED raceVars

\* events.json is damaged between two calls: json.load will raise JSONDecodeError.
CorruptFile ==
    /\ Idle
    /\ file.status = "ok"
    /\ file' = [status |-> "corrupt", data |-> <<>>]
    /\ UNCHANGED <<events, now, lastOp, args, ret, msg, free, report, exitStatus,
                   prevEvents, prevFile>>
    /\ UNCHANGED raceVars

\* The caller takes the result; the next call starts from here.
Return ==
    /\ ~Idle
    /\ lastOp' = "idle"
    /\ args' = NoArgs
    /\ ret' = "None"
    /\ msg' = ""
    /\ free' = <<>>
    /\ report' = NoReport
    /\ exitStatus' = None
    /\ prevEvents' = <<>>
    /\ prevFile' = Missing
    /\ UNCHANGED <<events, file, now>>
    /\ UNCHANGED raceVars

\* Time passes between two calls: datetime.now() reaches the next clock time.
Tick ==
    /\ Idle
    /\ \E t \in ClockTimes :
          /\ t > now
          /\ \A u \in ClockTimes : u > now => t <= u
          /\ now' = t
    /\ UNCHANGED <<events, file, lastOp, args, ret, msg, free, report, exitStatus,
                   prevEvents, prevFile>>
    /\ UNCHANGED raceVars

\* The patches update_event is called with: every choice of name and category
\* without a duration, and each duration alone or with both other fields.
Patches ==
    {[name |-> n, category |-> c, duration |-> None] :
        n \in {None, Some("b")}, c \in {None, Some("Leisure")}}
    \cup {[name |-> None, category |-> None, duration |-> Some(d)] : d \in Durations}
    \cup {[name |-> Some("b"), category |-> Some("Leisure"), duration |-> Some(d)] :
            d \in Durations}

Next ==
    \/ \E name \in Names, category \in CategoryInputs, s \in DateStrings, d \in Durations :
          add_event(name, category, s, d)
    \/ \E s \in DateStrings, p \in Patches :
          update_event(s, p.name, p.category, p.duration)
    \/ \E s \in DateStrings : delete_event(s)
    \/ \E s \in DateStrings : FindFreeTimes(s)
    \/ LoadEvents
    \/ generate_report
    \/ CorruptFile
    \/ Return
    \/ Tick

Spec == Init /\ [][Next]_vars

\* ------------------------------------------------------------- two invocations
\* What one invocation does not touch: the variables of the single process.
processVars == <<events, now, lastOp, args, ret, msg, free, report, exitStatus,
                 prevEvents, prevFile>>

\* main() of invocation p calls load_events(): its store, empty in a fresh
\* process, becomes what events.json holds at this moment.
MainLoad(p) ==
    /\ proc[p].pc = "start"
    /\ proc' = [proc EXCEPT ![p] = [@ EXCEPT !.pc = "loaded",
                                             !.events = load_events(file, <<>>)]]
    /\ interleaved' = (interleaved \/ \E q \in Invocations \ {p} : proc[q].pc = "loaded")
    /\ UNCHANGED file
    /\ UNCHANGED processVars

\* main() of invocation p calls add_event(): the conflict check and the
\* assignment on its own store, then save_events() writing that store over
\* events.json.
MainAdd(p, name, category, start_time, duration) ==
    /\ proc[p].pc = "loaded"
    /\ Cardinality(DOMAIN proc[p].events) < MaxEvents
    /\ LET o == add_event_outcome(proc[p].events, file, now, name, category,
                                  start_time, duration)
       IN  /\ proc' = [proc EXCEPT ![p] =
                          [pc |-> "done", events |-> o.events, ret |-> o.ret,
                           added |-> IF o.ret = "True"
                                     THEN Some([start |-> validate_date(start_time, 1, now).value,
                                                duration |-> duration])
                                     ELSE None]]
           /\ file' = o.file
    /\ UNCHANGED interleaved
    /\ UNCHANGED processVars

\* Invocation p exits (sys.exit); the next one under this name starts afresh.
MainExit(p) ==
    /\ proc[p].pc \in {"loaded", "done"}
    /\ proc' = [proc EXCEPT ![p] = NotStarted]
    /\ UNCHANGED <<file, interleaved>>
    /\ UNCHANGED processVars

\* The adds the invocations are run with: one name and category, every start
\* and every duration.
RaceAdds ==
    {[name |-> "a", category |-> "Work", start |-> s, duration |-> d] :
        s \in DateStrings, d \in Durations}

NextRace ==
    \/ \E p \in Invocations : MainLoad(p)
    \/ \E p \in Invocations, a \in RaceAdds :
          MainAdd(p, a.name, a.category, a.start, a.duration)
    \/ \E p \in Invocations : MainExit(p)

SpecRace == Init /\ [][NextRace]_vars

\* ------------------------------------------------------------- properties
\* The instant an input names, read off the string itself.
InstantOf(s) == s.day * MinutesPerDay + (IF s.kind = "datetime" THEN s.minute ELSE 0)

Parseable(s) == s.kind \in {"datetime", "date"}

Min(a, b) == IF a <= b THEN a ELSE b

\* [s1, s1+d1) and [s2, s2+d2) have an instant in common.
SharesInstant(s1, d1, s2, d2) == Max(s1, s2) < Min(s1 + d1, s2 + d2)

\* The overlap test of the specification: s1 < end2 and end1 > s2.
Overlaps(s1, d1, s2, d2) == s1 < s2 + d2 /\ s1 + d1 > s2

\* The starts a listing shows.
ListedStarts(evs) == {view_events(evs)[i].start : i \in 1 .. Len(view_events(evs))}

\* C1: after any sequence of add_event, update_event and delete_event calls
\* from the empty store, no two stored events overlap: they share no instant of
\* their half-open intervals, and the overlap test holds of no two of them.
C1_NoTwoEventsOverlap ==
    \A s1 \in DOMAIN events : \A s2 \in DOMAIN events :
        s1 # s2 =>
            /\ ~SharesInstant(s1, events[s1].duration, s2, events[s2].duration)
            /\ ~Overlaps(s1, events[s1].duration, s2, events[s2].duration)

\* Two events of positive duration are stored, the second by a successful add
\* (after adds and updates that were rejected or accepted on the way).
C1_Witness ==
    /\ lastOp = "add"
    /\ ret = "True"
    /\ Cardinality(DOMAIN events) = 2
    /\ \A s \in DOMAIN events : events[s].duration > 0

\* C2: for a parseable, strictly-future start, add_event is rejected as a
\* conflict exactly when start < existing_end and start+duration > existing_start
\* for some stored event (for positive durations: exactly when the two intervals
\* share an instant); a candidate that touches a stored event at a boundary is
\* accepted.
C2_ConflictIffOverlap ==
    (lastOp = "add" /\ Parseable(args.start) /\ InstantOf(args.start) > now) =>
        LET start == InstantOf(args.start)
            duration == args.duration[1]
            hit == \E k \in DOMAIN prevEvents :
                      start < k + prevEvents[k].duration /\ start + duration > k
            shared == \E k \in DOMAIN prevEvents :
                         SharesInstant(start, duration, k, prevEvents[k].duration)
            touches == \E k \in DOMAIN prevEvents :
                          /\ prevEvents[k].duration > 0
                          /\ k + prevEvents[k].duration = start \/ start + duration = k
        IN  /\ (ret = "False" /\ msg = "conflict") <=> hit
            /\ ret = "True" <=> ~hit
            /\ (duration > 0 /\ \A k \in DOMAIN prevEvents : prevEvents[k].duration > 0)
                  => (hit <=> shared)
            /\ (duration > 0 /\ touches /\ ~shared
                  /\ \A k \in DOMAIN prevEvents : prevEvents[k].duration > 0)
                  => ret = "True"

\* An add that begins exactly where a stored event of positive duration ends
\* was accepted.
C2_Witness ==
    /\ lastOp = "add"
    /\ ret = "True"
    /\ args.duration[1] > 0
    /\ \E k \in DOMAIN prevEvents :
          /\ prevEvents[k].duration > 0
          /\ k + prevEvents[k].duration = InstantOf(args.start)

\* C3: update_event on an existing event with a new duration whose interval
\* overlaps no other stored event succeeds, and the stored duration becomes the
\* new duration (the event being updated is not checked against itself).
C3_UpdateExcludesItself ==
    (/\ lastOp = "update"
     /\ Parseable(args.start)
     /\ InstantOf(args.start) > now
     /\ InstantOf(args.start) \in DOMAIN prevEvents
     /\ args.duration # None
     /\ args.duration[1] > 0
     /\ \A k \in DOMAIN prevEvents \ {InstantOf(args.start)} :
           ~Overlaps(InstantOf(args.start), args.duration[1], k, prevEvents[k].duration))
        => /\ ret = "True"
           /\ events[InstantOf(args.start)].duration = args.duration[1]

\* C4: when update_event is given a duration whose interval overlaps another
\* stored event, the update fails and the store and events.json are exactly as
\* before the call: no field of the event is changed.
C4_ConflictingUpdateChangesNothing ==
    (/\ lastOp = "update"
     /\ Parseable(args.start)
     /\ InstantOf(args.start) \in DOMAIN prevEvents
     /\ args.duration # None
     /\ args.duration[1] # 0
     /\ \E k \in DOMAIN prevEvents \ {InstantOf(args.start)} :
           Overlaps(InstantOf(args.start), args.duration[1], k, prevEvents[k].duration))
        => /\ ret = "False"
           /\ events = prevEvents
           /\ file = prevFile

\* An update carrying a new name, category and duration was rejected because the
\* new interval overlaps another event (the event's own old interval is empty).
C4_Witness ==
    /\ lastOp = "update"
    /\ msg = "conflict"
    /\ args.name = Some("b")
    /\ args.category = Some("Leisure")
    /\ args.duration # None
    /\ InstantOf(args.start) \in DOMAIN prevEvents
    /\ prevEvents[InstantOf(args.start)].duration <= 0
    /\ prevEvents[InstantOf(args.start)].name = "a"
    /\ \E k \in DOMAIN prevEvents \ {InstantOf(args.start)} :
          SharesInstant(InstantOf(args.start), args.duration[1], k, prevEvents[k].duration)

\* C5: for a strictly-future start and a positive duration whose interval
\* overlaps no stored event, add_event succeeds; afterwards the store holds at
\* exactly that start the given name, the lower-case category and the given
\* duration, and the listing of all events shows it.
C5_AddStoresTheEvent ==
    (/\ lastOp = "add"
     /\ Parseable(args.start)
     /\ InstantOf(args.start) > now
     /\ args.duration[1] > 0
     /\ \A k \in DOMAIN prevEvents :
           ~Overlaps(InstantOf(args.start), args.duration[1], k, prevEvents[k].duration))
        => LET start == InstantOf(args.start)
               normalized == IF args.category[1] = "Work" THEN "work" ELSE "leisure"
           IN  /\ ret = "True"
               /\ start \in DOMAIN events
               /\ events[start] = [name |-> args.name[1], category |-> normalized,
                                   duration |-> args.duration[1]]
               /\ \E i \in 1 .. Len(view_events(events)) :
                     view_events(events)[i] =
                        [start |-> [day |-> start \div MinutesPerDay,
                                    hh |-> (start % MinutesPerDay) \div 60,
                                    mm |-> start % 60],
                         name |-> args.name[1], category |-> normalized,
                         duration |-> args.duration[1]]

\* A valid add into a store that already holds an event succeeded.
C5_Witness ==
    /\ lastOp = "add"
    /\ ret = "True"
    /\ args.duration[1] > 0
    /\ prevEvents # <<>>
    /\ Cardinality(DOMAIN events) = 2

\* C6: add_event with the start of an already stored event is always rejected
\* and the stored event keeps its name, category and duration; every
\* successful add_event increases the number of stored events by exactly one.
C6_NoSilentReplacement ==
    lastOp = "add" =>
        /\ (Parseable(args.start) /\ InstantOf(args.start) \in DOMAIN prevEvents)
              => /\ ret = "False"
                 /\ events[InstantOf(args.start)] = prevEvents[InstantOf(args.start)]
        /\ ret = "True"
              => Cardinality(DOMAIN events) = Cardinality(DOMAIN prevEvents) + 1

\* C7: every stored event has duration > 0.
C7_DurationsPositive == \A k \in DOMAIN events : events[k].duration > 0
\* C8: delete_event with the exact start of a stored event, past or future,
\* removes that event and no other and leaves every other event as it was, so
\* the listing no longer shows the start; a start that is not stored enters the
\* store only by a successful add_event of that start.
C8_DeleteRemovesExactlyThatEvent ==
    [][/\ (/\ lastOp' = "delete"
           /\ Parseable(args'.start)
           /\ InstantOf(args'.start) \in DOMAIN events)
              => /\ DOMAIN events' = DOMAIN events \ {InstantOf(args'.start)}
                 /\ \A k \in DOMAIN events' : events'[k] = events[k]
                 /\ [day |-> args'.start.day,
                     hh |-> (InstantOf(args'.start) % MinutesPerDay) \div 60,
                     mm |-> InstantOf(args'.start) % 60] \notin ListedStarts(events')
       /\ \A k \in DOMAIN events' \ DOMAIN events :
              /\ lastOp' = "add"
              /\ ret' = "True"
              /\ InstantOf(args'.start) = k]_vars

\* An event whose start is already in the past was deleted from a store of two
\* events, and the other event is still stored.
C8_Witness ==
    /\ lastOp = "delete"
    /\ msg = "deleted"
    /\ InstantOf(args.start) <= now
    /\ Cardinality(DOMAIN prevEvents) = 2
    /\ Cardinality(DOMAIN events) = 1

\* The events of the store that start on day d.
StartingOn(evs, d) == {k \in DOMAIN evs : k \div MinutesPerDay = d}

\* Instant t lies in the interval of one of the events S of the store.
CoveredBy(evs, S, t) == \E k \in S : k <= t /\ t < k + evs[k].duration

\* C9: find_free_times(day) returns, in ascending order, exactly the maximal
\* gaps left inside [00:00, 23:59] by the events that start on that day: the
\* windows are non-empty, pairwise disjoint, overlap no such event, and
\* together with those events cover the span from 00:00 to 23:59.
C9_WindowsAreTheMaximalGaps ==
    lastOp = "free_times" =>
        LET d == InstantOf(args.start) \div MinutesPerDay
            sod == d * MinutesPerDay
            eod == sod + 23 * 60 + 59
            S == StartingOn(events, d)
            W == 1 .. Len(free)
        IN  /\ \A i \in W : free[i][1] < free[i][2]
            /\ \A i \in W : sod <= free[i][1] /\ free[i][2] <= eod
            /\ \A i \in W : i < Len(free) => free[i][2] <= free[i + 1][1]
            /\ \A i \in W : \A k \in S :
                  ~SharesInstant(free[i][1], free[i][2] - free[i][1],
                                 k, events[k].duration)
            /\ \A t \in sod .. eod - 1 :
                  CoveredBy(events, S, t)
                     \/ \E i \in W : free[i][1] <= t /\ t < free[i][2]
            /\ \A i \in W :
                  /\ free[i][1] = sod \/ CoveredBy(events, S, free[i][1] - 1)
                  /\ free[i][2] = eod \/ CoveredBy(events, S, free[i][2])

\* C9 on the stores it was written for: when every stored duration is positive,
\* the windows are exactly the maximal gaps.
C9_HoldsForPositiveDurations ==
    (\A k \in DOMAIN events : events[k].duration > 0) => C9_WindowsAreTheMaximalGaps

\* C10: no window returned by find_free_times(day) overlaps the interval of
\* any stored event, whatever day that event starts on.
C10_WindowsAvoidEveryEvent ==
    lastOp = "free_times" =>
        \A i \in 1 .. Len(free) : \A k \in DOMAIN events :
            ~SharesInstant(free[i][1], free[i][2] - free[i][1], k, events[k].duration)

\* The key events.json holds for the event that starts at t: 'YYYY-MM-DD HH:MM'.
KeyOf(t) ==
    [day |-> t \div MinutesPerDay,
     hh |-> (t % MinutesPerDay) \div 60,
     mm |-> t % 60]

\* events.json is readable and holds exactly the events of the store evs.
Persisted(f, evs) ==
    /\ f.status = "ok"
    /\ DOMAIN f.data = {KeyOf(t) : t \in DOMAIN evs}
    /\ \A t \in DOMAIN evs :
          /\ f.data[KeyOf(t)].name = evs[t].name
          /\ f.data[KeyOf(t)].category = evs[t].category
          /\ f.data[KeyOf(t)].duration = evs[t].duration

\* add_event and update_event succeeded when they returned True, delete_event
\* (which returns nothing) when it reported the deletion.
Succeeded == IF lastOp = "delete" THEN msg = "deleted" ELSE ret = "True"

C12_SaveThenLoadRoundTrip ==
    /\ events # <<>> =>
          \A prior \in {<<>>, events} :
              LET loaded == load_events(save_events(events), prior)
              IN  /\ DOMAIN loaded = DOMAIN events
                  /\ \A k \in DOMAIN events :
                        /\ loaded[k].name = events[k].name
                        /\ loaded[k].category = events[k].category
                        /\ loaded[k].duration = events[k].duration
    /\ (lastOp = "load" /\ prevEvents # <<>> /\ prevFile = save_events(prevEvents))
          => events = prevEvents

\* load_events read back a saved store of two events, one of them with a
\* duration that is not positive.
C12_Witness ==
    /\ lastOp = "load"
    /\ prevFile = save_events(prevEvents)
    /\ Cardinality(DOMAIN events) = 2
    /\ \E k \in DOMAIN events : events[k].duration <= 0

\* C13: add_event and update_event given a start that is not strictly after
\* now (the current minute or earlier) fail with the must-be-in-the-future error
\* and leave the store and events.json unchanged; a date without a time stands
\* for 00:00 of that date, in this check and as the key of the stored event.
C13_StartMustBeInTheFuture ==
    /\ (lastOp \in {"add", "update"} /\ Parseable(args.start)
            /\ InstantOf(args.start) <= now)
          => /\ ret = "False"
             /\ msg = "must_be_future"
             /\ events = prevEvents
             /\ file = prevFile
    /\ (lastOp \in {"add", "update"} /\ msg = "must_be_future")
          => (Parseable(args.start) /\ InstantOf(args.start) <= now)
    /\ (lastOp = "add" /\ ret = "True" /\ args.start.kind = "date")
          => /\ args.start.day * MinutesPerDay \in DOMAIN events
             /\ events[args.start.day * MinutesPerDay].name = args.name[1]

\* An update addressed to a stored event that starts in the very minute of
\* the call was rejected.
C13_Witness ==
    /\ lastOp = "update"
    /\ msg = "must_be_future"
    /\ InstantOf(args.start) = now
    /\ InstantOf(args.start) \in DOMAIN events

\* C14: find_free_times on a day on which no stored event starts returns
\* exactly one window, from 00:00 to 23:59 of that day, whatever events start
\* on other days.
C14_EmptyDayIsOneFullWindow ==
    (lastOp = "free_times" /\ StartingOn(events, args.start.day) = {})
        => free = <<<<args.start.day * MinutesPerDay,
                      args.start.day * MinutesPerDay + 23 * 60 + 59>>>>

\* The free times of a day without events were asked while two events are
\* stored on a later day.
C14_Witness ==
    /\ lastOp = "free_times"
    /\ StartingOn(events, args.start.day) = {}
    /\ Cardinality(DOMAIN events) = 2
    /\ \A k \in DOMAIN events : k \div MinutesPerDay > args.start.day

\* update_event or delete_event was addressed to an instant at which no event
\* was stored.
AddressedToNoEvent ==
    /\ lastOp \in {"update", "delete"}
    /\ Parseable(args.start)
    /\ InstantOf(args.start) \notin DOMAIN prevEvents

\* C15 as stated: update_event or delete_event addressed to a start at which
\* no event is stored fails as not-found and leaves the store and events.json
\* unchanged.
C15_MissingStartIsNotFound ==
    AddressedToNoEvent =>
        /\ msg = "not_found"
        /\ lastOp = "update" => ret = "False"
        /\ events = prevEvents
        /\ file = prevFile

\* C15, amended: update_event or delete_event addressed to a start at which no
\* event is stored fails and leaves the store and events.json unchanged; the
\* failure is not-found for delete_event and for an update_event whose start
\* is strictly after now, and must-be-in-the-future for an update_event whose
\* start is not. Not-found is reported only for a start that is not a key of
\* the store: an instant inside another event's interval does not match.
C15_MissingStartFailsAndChangesNothing ==
    /\ AddressedToNoEvent =>
          /\ msg = (IF lastOp = "update" /\ InstantOf(args.start) <= now
                    THEN "must_be_future" ELSE "not_found")
          /\ lastOp = "update" => ret = "False"
          /\ events = prevEvents
          /\ file = prevFile
    /\ (lastOp \in {"update", "delete"} /\ msg = "not_found") => AddressedToNoEvent

\* An update addressed to an instant strictly inside the interval of a stored
\* event, at which no event starts, failed as not-found.
C15_Witness ==
    /\ lastOp = "update"
    /\ msg = "not_found"
    /\ \E k \in DOMAIN events :
          k < InstantOf(args.start) /\ InstantOf(args.start) < k + events[k].duration

\* C16: a successful update_event leaves every field the patch omits (name,
\* category or duration) at its prior value and sets the name and category the
\* patch carries; the set of start keys of the store is unchanged and every
\* other event is as before.
C16_UpdateChangesOnlyThePatch ==
    (lastOp = "update" /\ ret = "True") =>
        LET k == InstantOf(args.start)
        IN  /\ k \in DOMAIN prevEvents
            /\ DOMAIN events = DOMAIN prevEvents
            /\ \A j \in DOMAIN events \ {k} : events[j] = prevEvents[j]
            /\ args.name = None => events[k].name = prevEvents[k].name
            /\ args.category = None => events[k].category = prevEvents[k].category
            /\ args.duration = None => events[k].duration = prevEvents[k].duration
            /\ args.name # None => events[k].name = args.name[1]
            /\ args.category # None =>
                  events[k].category = (IF args.category[1] = "Leisure" THEN "leisure"
                                        ELSE "work")

\* An update carrying only a name succeeded on one of two stored events and
\* changed that name.
C16_Witness ==
    /\ lastOp = "update"
    /\ ret = "True"
    /\ args.name # None
    /\ args.category = None
    /\ args.duration = None
    /\ Cardinality(DOMAIN events) = 2
    /\ events # prevEvents

RECURSIVE TotalOf(_, _)
\* The sum of the durations of the events of evs that start at the instants
\* of the sequence starts.
TotalOf(evs, starts) ==
    IF starts = <<>> THEN 0
    ELSE evs[Head(starts)].duration + TotalOf(evs, Tail(starts))

\* The two category strings are equal when case is ignored.
SameCategory(a, b) ==
    \E c \in {<<"work", "Work">>, <<"exercise", "Exercise">>, <<"leisure", "Leisure">>} :
        a \in {c[1], c[2]} /\ b \in {c[1], c[2]}

\* C17: total_time_per_category returns an entry for each of Work, Exercise
\* and Leisure and no other, each the sum of the durations of the stored events
\* whose category is that one when case is ignored; on the empty store the
\* three entries are 0.
C17_CategoryTotals ==
    lastOp = "report" =>
        /\ DOMAIN report.category_times = {"Work", "Exercise", "Leisure"}
        /\ \A c \in {"Work", "Exercise", "Leisure"} :
              report.category_times[c] =
                  TotalOf(events,
                          SortedSeq({k \in DOMAIN events : SameCategory(events[k].category, c)}))
        /\ events = <<>> =>
              \A c \in {"Work", "Exercise", "Leisure"} : report.category_times[c] = 0

\* A report over two events of the same category, both with a positive
\* duration, and none of the other categories.
C17_Witness ==
    /\ lastOp = "report"
    /\ Cardinality(DOMAIN events) = 2
    /\ \A k \in DOMAIN events : events[k].category = "leisure" /\ events[k].duration > 0
    /\ report.category_times["Leisure"] = 120
    /\ report.category_times["Work"] = 0

\* C20: busiest_days lists each calendar date on which a stored event starts
\* exactly once and no other date, each with the sum of the durations of the
\* events that start on it, in non-increasing order of that sum.
C20_BusiestDays ==
    lastOp = "report" =>
        LET listed == report.busiest_days
            dates == {k \div MinutesPerDay : k \in DOMAIN events}
        IN  /\ {listed[i][1] : i \in 1 .. Len(listed)} = dates
            /\ Len(listed) = Cardinality(dates)
            /\ \A i \in 1 .. Len(listed) :
                  listed[i][2] =
                      TotalOf(events, SortedSeq(StartingOn(events, listed[i][1])))
            /\ \A i \in 1 .. Len(listed) - 1 : listed[i][2] >= listed[i + 1][2]

\* A report over two events that start on the same date, whose durations add
\* up to the total listed for that date.
C20_Witness ==
    /\ lastOp = "report"
    /\ Cardinality(DOMAIN events) = 2
    /\ \A k \in DOMAIN events : events[k].duration > 0
    /\ report.busiest_days = <<<<1, 120>>>>

\* C18: main() exits with status 0 only when the requested operation
\* succeeded: a validation failure, a conflict on add or update, or a not-found
\* on update or delete gives a non-zero status.
C18_ExitStatusTellsFailure ==
    lastOp \in {"add", "update", "delete"} =>
        (exitStatus = Some(0) <=> Succeeded)

\* C19: when events.json is missing or corrupt, load_events returns normally
\* and the store is empty afterwards, whatever it held before the load.
C19_FailedLoadEmptiesTheStore ==
    (lastOp = "load" /\ prevFile.status # "ok") => events = <<>>

\* C23: an add_event that fails, because its start does not parse, is not
\* strictly after now, or its interval conflicts with a stored event, leaves
\* the store and events.json exactly as they were before the call, also when
\* the free times of the day were computed for the conflict message; each of
\* the three causes makes the add fail.
C23_FailedAddChangesNothing ==
    lastOp = "add" =>
        /\ ret # "True" =>
              /\ events = prevEvents
              /\ file = prevFile
              /\ msg \in {"invalid_format", "must_be_future", "conflict"}
        /\ ~Parseable(args.start) => (ret = "False" /\ msg = "invalid_format")
        /\ (Parseable(args.start) /\ InstantOf(args.start) <= now)
              => (ret = "False" /\ msg = "must_be_future")
        /\ (Parseable(args.start) /\ InstantOf(args.start) > now
                /\ \E k \in DOMAIN prevEvents :
                      Overlaps(InstantOf(args.start), args.duration[1],
                               k, prevEvents[k].duration))
              => (ret = "False" /\ msg = "conflict")

\* An add was rejected as a conflict with a stored event and the free times of
\* that day were computed for the message.
C23_Witness ==
    /\ lastOp = "add"
    /\ ret = "False"
    /\ msg = "conflict"
    /\ free # <<>>
    /\ events # <<>>
    /\ InstantOf(args.start) \notin DOMAIN events

\* The week of the year an instant lies in: weeks begin on Sunday and day 0 is
\* a Saturday, so day 0 is alone in its week and days 1 to 7 share the next.
WeekNumber(t) == 1 + ((t \div MinutesPerDay) + 6) \div 7

\* The events of the store that start in week w.
StartingInWeek(evs, w) == {k \in DOMAIN evs : WeekNumber(k) = w}

\* The sum of the durations of the events of week w whose category is c.
WeekCategoryTotal(evs, w, c) ==
    TotalOf(evs, SortedSeq({k \in StartingInWeek(evs, w) : SameCategory(evs[k].category, c)}))

\* C21: trends_over_time returns one entry for each week in which a stored
\* event starts and for no other week, in ascending week order; the total of
\* an entry is the sum of the durations of the week's events, its dominant
\* category is a category of the week's events whose summed duration no
\* category of the week's events exceeds, and it is reported with exactly that
\* category's sum. When the durations of the week are positive, no known
\* category at all has a higher sum.
C21_WeeklyTrends ==
    lastOp = "report" =>
        LET listed == report.trends
            weeks == {WeekNumber(k) : k \in DOMAIN events}
        IN  /\ {listed[i][1] : i \in 1 .. Len(listed)} = weeks
            /\ Len(listed) = Cardinality(weeks)
            /\ \A i \in 1 .. Len(listed) - 1 : listed[i][1] < listed[i + 1][1]
            /\ \A i \in 1 .. Len(listed) :
                  LET w == listed[i][1]
                      entry == listed[i][2]
                      S == StartingInWeek(events, w)
                  IN  /\ entry.total_duration = TotalOf(events, SortedSeq(S))
                      /\ entry.max_category \in {"Work", "Exercise", "Leisure"}
                      /\ \E k \in S : SameCategory(events[k].category, entry.max_category)
                      /\ entry.max_category_duration =
                            WeekCategoryTotal(events, w, entry.max_category)
                      /\ \A k \in S :
                            WeekCategoryTotal(events, w, events[k].category)
                               <= entry.max_category_duration
                      /\ (\A k \in S : events[k].duration > 0) =>
                            \A c \in {"Work", "Exercise", "Leisure"} :
                                WeekCategoryTotal(events, w, c) <= entry.max_category_duration

\* A report over a week with a work event and a leisure event that is not
\* shorter: the dominant category is Leisure and the total is the sum of both.
C21_Witness ==
    /\ lastOp = "report"
    /\ Len(report.trends) = 1
    /\ \E k \in DOMAIN events : events[k].category = "work"
    /\ \E k \in DOMAIN events : events[k].category = "leisure" /\ events[k].duration > 0
    /\ report.trends[1][2].max_category = "Leisure"
    /\ report.trends[1][2].total_duration # report.trends[1][2].max_category_duration

\* The instant a key of events.json names.
InstantOfKey(k) == k.day * MinutesPerDay + k.hh * 60 + k.mm

\* events.json holds two events that overlap.
PersistedOverlap ==
    /\ file.status = "ok"
    /\ \E k1 \in DOMAIN file.data : \E k2 \in DOMAIN file.data :
          /\ k1 # k2
          /\ Overlaps(InstantOfKey(k1), file.data[k1].duration,
                      InstantOfKey(k2), file.data[k2].duration)

\* events.json holds an event at the start invocation p added.
PersistedStartOf(p) ==
    /\ file.status = "ok"
    /\ \E k \in DOMAIN file.data : InstantOfKey(k) = proc[p].added[1].start

\* events.json holds the event invocation p added: its start with its duration.
PersistedAddOf(p) ==
    /\ file.status = "ok"
    /\ \E k \in DOMAIN file.data :
          /\ InstantOfKey(k) = proc[p].added[1].start
          /\ file.data[k].duration = proc[p].added[1].duration

\* Both invocations have returned from a successful add_event, of two events
\* with different starts that overlap.
BothAddedOverlapping ==
    /\ \A p \in Invocations : proc[p].pc = "done" /\ proc[p].ret = "True"
    /\ proc["A"].added[1].start # proc["B"].added[1].start
    /\ Overlaps(proc["A"].added[1].start, proc["A"].added[1].duration,
                proc["B"].added[1].start, proc["B"].added[1].duration)

\* C22 as stated: two invocations interleaving on events.json without mutual
\* exclusion leave a persisted state that violates conflict-freedom: when both
\* have added overlapping events, both events are stored in events.json.
C22_RacePersistsOverlappingEvents ==
    BothAddedOverlapping =>
        /\ \A p \in Invocations : PersistedAddOf(p)
        /\ PersistedOverlap

\* C22, amended: events.json never holds two overlapping events, whether the
\* invocations interleave or not. What interleaving without mutual exclusion
\* brings is a lost update: when both invocations have added overlapping
\* events, events.json holds the event of exactly one of them and the other
\* add, reported as a success, is not persisted. When no invocation loads
\* while another is between its load and its save, the start of every
\* successful add of a finished invocation is in events.json.
C22_RaceLosesAnUpdate ==
    /\ ~PersistedOverlap
    /\ BothAddedOverlapping =>
          \E p \in Invocations :
              /\ PersistedAddOf(p)
              /\ \A q \in Invocations \ {p} : ~PersistedAddOf(q)
    /\ ~interleaved =>
          \A p \in Invocations :
              (proc[p].pc = "done" /\ proc[p].ret = "True") => PersistedStartOf(p)

\* Both invocations loaded events.json before either saved, both added an
\* event of positive duration and the two events overlap: events.json holds
\* only one event and the start of the other add is not in it.
C22_Witness ==
    /\ BothAddedOverlapping
    /\ interleaved
    /\ \A p \in Invocations : proc[p].added[1].duration > 0
    /\ Cardinality(DOMAIN file.data) = 1
    /\ \E p \in Invocations : ~PersistedStartOf(p)
====
